---- MODULE Spec2Model ----
(***************************************************************************)
(* Model of dumper.py: the trace post-processing script.  The script is a  *)
(* straight-line batch program over the imported event list `data`:        *)
(*   lines  7-12  build the per-address reader / writer thread sets        *)
(*   lines 17-22  set t['relevant'] and rewrite t['description']           *)
(*   lines 26-48  resolve every frame's contents, then filter the trace    *)
(*   lines 50-53  four list comprehensions that drop whole events          *)
(* Strings are TLA+ strings; Python's `in`, slicing and re.sub are         *)
(* modelled character by character with Len, SubSeq and \o.                *)
(***************************************************************************)
EXTENDS Integers, Sequences, FiniteSets, TLC

VARIABLES
    input,      \* the imported list `data` as it was before the script ran
    data,       \* the module-level list `data` (events mutated in place)
    readers,    \* readers: address -> set of threads (defaultdict(set))
    writers,    \* writers: address -> set of threads (defaultdict(set))
    files,      \* files: path -> list of lines (the cache dict)
    pc,         \* position of the script
    i,          \* index of the event the line-26 loop is at
    text,       \* argument string of the function applied on its own
    col,        \* 1-based column argument of the token highlighter
    result      \* values returned by the function applied on its own

vars == <<input, data, readers, writers, files, pc, i, text, col, result>>

----------------------------------------------------------------------------
(* Bounds of the model *)

MaxEvents == 3
MaxTrace == 2
MaxDescLen == 3
MaxLineLen == 3

----------------------------------------------------------------------------
(* String helpers: Python's s[k], a[lo:hi] (0-based, 0 <= lo) and `in`.    *)

CharAt(s, k) == SubSeq(s, k + 1, k + 1)

Slice(s, lo, hi) ==
    LET h == IF hi > Len(s) THEN Len(s) ELSE hi
    IN  IF lo >= h THEN "" ELSE SubSeq(s, lo + 1, h)

Contains(sub, s) ==
    \E k \in 1..(Len(s) - Len(sub) + 1) : SubSeq(s, k, k + Len(sub) - 1) = sub

----------------------------------------------------------------------------
(* Lines 4-12: access sets *)

Threads == {1, 2}

Addresses == {"0x1f", "0x2a"}

IsTransition(t) == t.type = "transition"

AccessSetsFullList(events, write) ==
    [a \in Addresses |->
        {events[k].thread : k \in {j \in 1..Len(events) :
            /\ IsTransition(events[j])
            /\ events[j].does_write = write
            /\ events[j].address = a}}]

\* Sets built only from the events the line-53 comprehension would keep.
AccessSetsOfKept(events, write) ==
    AccessSetsFullList(
        SelectSeq(events, LAMBDA t :
            \A k \in 1..Len(t.trace) : ~Contains("Guard", t.trace[k].function)),
        write)

AccessSets(events, write) == AccessSetsFullList(events, write)

(* Line 19-20: the relevance rule *)
RelevantNoDifference(w, r) ==
    Cardinality(w) > 1 \/ (Cardinality(w) = 1 /\ Cardinality(r) > 0)

Relevant(w, r) ==
    Cardinality(w) > 1 \/ (Cardinality(w) = 1 /\ Cardinality(r \ w) > 0)

----------------------------------------------------------------------------
(* Lines 15, 22: address_pat.sub(r'<span class="addr p\1">\1</span>', d)   *)

HexDigits == {"0", "1", "2", "3", "4", "5", "6", "7", "8", "9",
              "a", "b", "c", "d", "e", "f"}

\* Index (0-based) just past the run of [0-9a-f] that starts at k.
RECURSIVE HexRunEnd(_, _)
HexRunEnd(s, k) ==
    IF k < Len(s) /\ CharAt(s, k) \in HexDigits THEN HexRunEnd(s, k + 1) ELSE k

\* The pattern 0x[0-9a-f]+, which needs a digit after the prefix.
MatchEndNeedsDigit(s, k) ==
    IF Slice(s, k, k + 2) = "0x" /\ HexRunEnd(s, k + 2) > k + 2
    THEN HexRunEnd(s, k + 2) ELSE -1

\* End (0-based, exclusive) of the match of 0x[0-9a-f]* at k, or -1.
MatchEnd(s, k) ==
    IF Slice(s, k, k + 2) = "0x" THEN HexRunEnd(s, k + 2) ELSE -1

Replacement(m) == "<span class=\"addr p" \o m \o "\">" \o m \o "</span>"

\* re.sub: leftmost, greedy, non-overlapping matches, scanning from k.
RECURSIVE SubFrom(_, _)
SubFrom(s, k) ==
    IF k >= Len(s) THEN ""
    ELSE IF MatchEnd(s, k) >= 0
         THEN Replacement(Slice(s, k, MatchEnd(s, k))) \o SubFrom(s, MatchEnd(s, k))
         ELSE CharAt(s, k) \o SubFrom(s, k + 1)

Annotate(d) == SubFrom(d, 0)

----------------------------------------------------------------------------
(* Lines 31-43: token highlighting *)

TokenAlphabet == {"a", "b", "c", "d", "e", "f", "g", "h", "i", "j", "k", "m",
    "n", "l", "o", "p", "q", "r", "s", "t", "u", "v", "w", "x", "y", "z",
    "A", "B", "C", "D", "E", "F", "G", "H", "I", "J", "K", "L", "M", "N",
    "O", "P", "Q", "R", "S", "T", "U", "V", "W", "X", "Y", "Z", "_",
    "1", "2", "3", "4", "5", "6", "7", "8", "9", "0", ":", ".", "-", ">"}

\* The while loop of lines 36-38: b after the loop.
RECURSIVE ScanEnd(_, _)
ScanEnd(a, b) ==
    IF b < Len(a) /\ CharAt(a, b) \in TokenAlphabet THEN ScanEnd(a, b + 1) ELSE b

\* The remainder taken one character too late: a[b + 1:].
HighlightSkipsOne(a, column) ==
    LET b0 == column - 1
        b1 == ScanEnd(a, b0)
    IN  IF b0 < Len(a)
        THEN [prefix |-> Slice(a, 0, b0), token |-> Slice(a, b0, b1),
              rest |-> Slice(a, b1 + 1, Len(a)),
              contents |-> Slice(a, 0, b0) \o Slice(a, b0, b1)
                           \o Slice(a, b1 + 1, Len(a))]
        ELSE [prefix |-> a, token |-> "", rest |-> "", contents |-> a]

\* column is the frame's 1-based column (>= 1).  prefix is a[:b] of line
\* 35, token the characters appended by the loop, rest the a[b:] of line
\* 40; contents is the string c assigned to a (or a itself when b >= len).
Highlight(a, column) ==
    LET b0 == column - 1
        b1 == ScanEnd(a, b0)
    IN  IF b0 < Len(a)
        THEN [prefix |-> Slice(a, 0, b0), token |-> Slice(a, b0, b1),
              rest |-> Slice(a, b1, Len(a)),
              contents |-> Slice(a, 0, b0) \o Slice(a, b0, b1)
                           \o Slice(a, b1, Len(a))]
        ELSE [prefix |-> a, token |-> "", rest |-> "", contents |-> a]

----------------------------------------------------------------------------
(* Lines 24-43: the files cache and frame resolution *)

\* What open(path).readlines() returns for the paths that can be read.
FileSystem ==
    [f \in {"queue.cc"} |-> <<"  q.push(v);\n", "  guards.protect(0, p);\n">>]

MissingFile == "gone.cc"

Readable(path) == path \in DOMAIN FileSystem

\* A frame's contents before line 43 has run for it (the key is absent).
Unresolved == ""

ResolveFrame(l) ==
    [l EXCEPT !.contents = Highlight(FileSystem[l.file][l.line], l.column).contents]

\* Index of the first frame whose file open() cannot read, 0 when none.
FirstUnreadable(trace) ==
    IF \E k \in 1..Len(trace) : ~Readable(trace[k].file)
    THEN CHOOSE k \in 1..Len(trace) :
            /\ ~Readable(trace[k].file)
            /\ \A j \in 1..(k - 1) : Readable(trace[j].file)
    ELSE 0

\* The inner loop of lines 28-43 over the first n frames.
ResolveUpTo(trace, n) ==
    [k \in 1..Len(trace) |-> IF k <= n THEN ResolveFrame(trace[k]) ELSE trace[k]]

FilesAfter(cache, trace, n) ==
    [f \in DOMAIN cache \cup {trace[k].file : k \in 1..n} |-> FileSystem[f]]

----------------------------------------------------------------------------
(* Lines 45-48: frame-level filter *)

\* A filter that forgets the boost::lockfree::tagged_ptr line.
SanitizeTraceThreeMarkers(trace) ==
    LET t1 == SelectSeq(trace, LAMBDA l : ~Contains("::atomic", l.function))
        t2 == SelectSeq(t1, LAMBDA l : ~Contains("__atomic_base", l.function))
    IN  SelectSeq(t2, LAMBDA l : ~Contains("boost::lockfree::CAS", l.function))

RECURSIVE Reverse(_)
Reverse(s) == IF s = <<>> THEN <<>> ELSE Append(Reverse(Tail(s)), Head(s))

\* A filter that keeps the right frames but hands them back reversed.
SanitizeTraceReversed(trace) ==
    Reverse(SelectSeq(trace, LAMBDA l :
        /\ ~Contains("::atomic", l.function)
        /\ ~Contains("__atomic_base", l.function)
        /\ ~Contains("boost::lockfree::CAS", l.function)
        /\ ~Contains("boost::lockfree::tagged_ptr", l.function)))

SanitizeTrace(trace) ==
    LET t1 == SelectSeq(trace, LAMBDA l : ~Contains("::atomic", l.function))
        t2 == SelectSeq(t1, LAMBDA l : ~Contains("__atomic_base", l.function))
        t3 == SelectSeq(t2, LAMBDA l : ~Contains("boost::lockfree::CAS", l.function))
    IN  SelectSeq(t3, LAMBDA l : ~Contains("boost::lockfree::tagged_ptr", l.function))

----------------------------------------------------------------------------
(* Lines 50-53: event-level drop filter *)

\* Keeps an event unless every frame carries the marker.
KeepsUnlessAllMatch(t, field, marker) ==
    \/ t.type = "annotation"
    \/ \E k \in 1..Len(t.trace) : ~Contains(marker, t.trace[k][field])

\* The condition without the annotation exemption.
KeepsNoExemption(t, field, marker) ==
    \A k \in 1..Len(t.trace) : ~Contains(marker, t.trace[k][field])

\* The condition of one comprehension: annotation, or no frame has marker.
Keeps(t, field, marker) ==
    \/ t.type = "annotation"
    \/ \A k \in 1..Len(t.trace) : ~Contains(marker, t.trace[k][field])

\* A comprehension that hands the survivors back in reverse order.
DropWhereReversed(events, field, marker) ==
    Reverse(SelectSeq(events, LAMBDA t : Keeps(t, field, marker)))

DropWhere(events, field, marker) ==
    SelectSeq(events, LAMBDA t : Keeps(t, field, marker))

----------------------------------------------------------------------------
(* Line 1: the imported event list *)

Frame(file, line, column, function) ==
    [file |-> file, line |-> line, column |-> column, function |-> function,
     contents |-> Unresolved]

UserFrame == Frame("queue.cc", 1, 3, "main")
AtomicFrame == Frame("queue.cc", 1, 5, "std::atomic<int>::load")
AtomicBaseFrame == Frame("queue.cc", 1, 3, "std::__atomic_base<int>::store")
CASFrame == Frame("queue.cc", 1, 9, "boost::lockfree::CAS")
TaggedPtrFrame == Frame("queue.cc", 1, 3, "boost::lockfree::tagged_ptr<node>::get_ptr")
GuardFrame == Frame("queue.cc", 1, 3, "cds::gc::hp::Guard::protect")
HPAllocatorFrame == Frame("queue.cc", 1, 3, "HPAllocator::alloc")
AllocateHPRecFrame == Frame("queue.cc", 1, 3, "cds::gc::hzp::AllocateHPRec")
ProtectLineFrame == Frame("queue.cc", 2, 3, "worker")
UnreadableFrame == Frame(MissingFile, 1, 1, "main")

Frames == {UserFrame, AtomicFrame, AtomicBaseFrame, CASFrame, TaggedPtrFrame,
           GuardFrame, HPAllocatorFrame, AllocateHPRecFrame, ProtectLineFrame,
           UnreadableFrame}

SeqsUpTo(S, n) == UNION {[1..m -> S] : m \in 0..n}

\* The tracer's description of an access names the address.
Description(write, address) ==
    (IF write THEN "store " ELSE "load ") \o address

\* An absent 'relevant' key is modelled as FALSE.
Transition(address, thread, write, trace) ==
    [type |-> "transition", address |-> address, thread |-> thread,
     does_write |-> write, description |-> Description(write, address),
     trace |-> trace, relevant |-> FALSE]

Annotation(trace) ==
    [type |-> "annotation", address |-> "", thread |-> 0,
     does_write |-> FALSE, description |-> "checkpoint",
     trace |-> trace, relevant |-> FALSE]

\* Accesses to two addresses by two threads, all with one kept trace.
SharingEvents ==
    {Transition(a, th, w, <<AtomicFrame, UserFrame>>) :
        a \in Addresses, th \in Threads, w \in BOOLEAN}
    \cup {Annotation(<<AtomicFrame, UserFrame>>)}

\* Accesses to one address whose traces are kept or dropped by line 53.
AccessTraces == {<<AtomicFrame, UserFrame>>, <<UserFrame, GuardFrame>>}

DroppingEvents ==
    {Transition("0x1f", th, w, tr) :
        th \in Threads, w \in BOOLEAN, tr \in AccessTraces}
    \cup {Annotation(tr) : tr \in AccessTraces}

\* Single events with every trace over Frames.
TraceEvents ==
    {Transition("0x1f", 1, TRUE, tr) : tr \in SeqsUpTo(Frames, MaxTrace)}
    \cup {Annotation(tr) : tr \in SeqsUpTo(Frames, MaxTrace)}

\* `id` is the event's position in the imported list (object identity).
WithIds(events) ==
    [k \in 1..Len(events) |->
        [id |-> k, type |-> events[k].type, address |-> events[k].address,
         thread |-> events[k].thread, does_write |-> events[k].does_write,
         description |-> events[k].description, trace |-> events[k].trace,
         relevant |-> events[k].relevant]]

Inputs ==
    {WithIds(es) : es \in SeqsUpTo(SharingEvents, MaxEvents)}
    \cup {WithIds(es) : es \in SeqsUpTo(DroppingEvents, MaxEvents)}
    \cup {WithIds(<<e>>) : e \in TraceEvents}

----------------------------------------------------------------------------
(* The script *)

EmptySets == [a \in Addresses |-> {}]

Init ==
    /\ input \in Inputs
    /\ data = input
    /\ readers = EmptySets
    /\ writers = EmptySets
    /\ files = <<>>
    /\ pc = "build"
    /\ i = 1
    /\ text = ""
    /\ col = 0
    /\ result = <<>>

\* Lines 7-12
BuildAccessSets ==
    /\ pc = "build"
    /\ writers' = AccessSets(data, TRUE)
    /\ readers' = AccessSets(data, FALSE)
    /\ pc' = "classify"
    /\ UNCHANGED <<input, data, files, i, text, col, result>>

\* Lines 17-22
Classify ==
    /\ pc = "classify"
    /\ data' = [k \in 1..Len(data) |->
                  IF IsTransition(data[k])
                  THEN [data[k] EXCEPT
                          !.relevant = Relevant(writers[data[k].address],
                                                readers[data[k].address]),
                          !.description = Annotate(data[k].description)]
                  ELSE data[k]]
    /\ pc' = "resolve"
    /\ i' = 1
    /\ UNCHANGED <<input, readers, writers, files, text, col, result>>

\* Lines 26-48, one iteration of the outer loop: a transition whose frames
\* can all be read gets its contents resolved and its trace filtered.
ResolveEvent ==
    /\ pc = "resolve"
    /\ i <= Len(data)
    /\ IsTransition(data[i])
    /\ FirstUnreadable(data[i].trace) = 0
    /\ data' = [data EXCEPT ![i].trace =
                  SanitizeTrace(ResolveUpTo(data[i].trace, Len(data[i].trace)))]
    /\ files' = FilesAfter(files, data[i].trace, Len(data[i].trace))
    /\ i' = i + 1
    /\ UNCHANGED <<input, readers, writers, pc, text, col, result>>

\* Lines 26-27: the body is skipped for an annotation.
SkipAnnotation ==
    /\ pc = "resolve"
    /\ i <= Len(data)
    /\ ~IsTransition(data[i])
    /\ i' = i + 1
    /\ UNCHANGED <<input, data, readers, writers, files, pc, text, col, result>>

\* Line 30: open() raises and nothing catches it; the script ends there,
\* with the frames before the failing one already resolved.
OpenFails ==
    /\ pc = "resolve"
    /\ i <= Len(data)
    /\ IsTransition(data[i])
    /\ FirstUnreadable(data[i].trace) > 0
    /\ data' = [data EXCEPT ![i].trace =
                  ResolveUpTo(data[i].trace, FirstUnreadable(data[i].trace) - 1)]
    /\ files' = FilesAfter(files, data[i].trace, FirstUnreadable(data[i].trace) - 1)
    /\ pc' = "aborted"
    /\ UNCHANGED <<input, readers, writers, i, text, col, result>>

ResolveDone ==
    /\ pc = "resolve"
    /\ i > Len(data)
    /\ pc' = "drop50"
    /\ UNCHANGED <<input, data, readers, writers, files, i, text, col, result>>

\* Line 50
DropGuardsProtect ==
    /\ pc = "drop50"
    /\ data' = DropWhere(data, "contents", "guards.protect")
    /\ pc' = "drop51"
    /\ UNCHANGED <<input, readers, writers, files, i, text, col, result>>

\* Line 51
DropAllocateHPRec ==
    /\ pc = "drop51"
    /\ data' = DropWhere(data, "function", "AllocateHPRec")
    /\ pc' = "drop52"
    /\ UNCHANGED <<input, readers, writers, files, i, text, col, result>>

\* Line 52
DropHPAllocator ==
    /\ pc = "drop52"
    /\ data' = DropWhere(data, "function", "HPAllocator")
    /\ pc' = "drop53"
    /\ UNCHANGED <<input, readers, writers, files, i, text, col, result>>

\* Line 53: after it `data` is the list handed to the template.
DropGuard ==
    /\ pc = "drop53"
    /\ data' = DropWhere(data, "function", "Guard")
    /\ pc' = "done"
    /\ UNCHANGED <<input, readers, writers, files, i, text, col, result>>

Next ==
    \/ BuildAccessSets
    \/ Classify
    \/ ResolveEvent
    \/ SkipAnnotation
    \/ OpenFails
    \/ ResolveDone
    \/ DropGuardsProtect
    \/ DropAllocateHPRec
    \/ DropHPAllocator
    \/ DropGuard

Spec == Init /\ [][Next]_vars


----------------------------------------------------------------------------
(* The description substitution applied on its own, twice in a row *)

DescAlphabet == {"0", "x", "f", " "}

RECURSIVE StringsUpTo(_, _)
StringsUpTo(alphabet, n) ==
    IF n = 0 THEN {""}
    ELSE LET shorter == StringsUpTo(alphabet, n - 1)
         IN  shorter \cup {s \o c : s \in shorter, c \in alphabet}

InitAnnotate ==
    /\ text \in StringsUpTo(DescAlphabet, MaxDescLen)
    /\ result = <<>>
    /\ pc = "annotate"
    /\ col = 0
    /\ input = <<>>
    /\ data = <<>>
    /\ readers = EmptySets
    /\ writers = EmptySets
    /\ files = <<>>
    /\ i = 1

\* Line 22 applied to the text, then to its own result.
ApplyAnnotate ==
    /\ pc = "annotate"
    /\ Len(result) < 2
    /\ result' = Append(result,
                    Annotate(IF result = <<>> THEN text ELSE result[Len(result)]))
    /\ UNCHANGED <<input, data, readers, writers, files, pc, i, text, col>>

NextAnnotate == ApplyAnnotate

SpecAnnotate == InitAnnotate /\ [][NextAnnotate]_vars

----------------------------------------------------------------------------
(* The token highlighter applied on its own *)

LineAlphabet == {"q", ">", " ", "("}

InitHighlight ==
    /\ text \in StringsUpTo(LineAlphabet, MaxLineLen) \ {""}
    /\ col \in 1..(MaxLineLen + 1)
    /\ result = <<>>
    /\ pc = "highlight"
    /\ input = <<>>
    /\ data = <<>>
    /\ readers = EmptySets
    /\ writers = EmptySets
    /\ files = <<>>
    /\ i = 1

\* Lines 33-41 applied to the line `text` at column `col`.
ApplyHighlight ==
    /\ pc = "highlight"
    /\ result = <<>>
    /\ result' = <<Highlight(text, col)>>
    /\ UNCHANGED <<input, data, readers, writers, files, pc, i, text, col>>

NextHighlight == ApplyHighlight

SpecHighlight == InitHighlight /\ [][NextHighlight]_vars

----------------------------------------------------------------------------
(* Properties *)

\* Threads of the transitions of the imported list on address a.
InputWriters(a) ==
    {input[k].thread : k \in {j \in 1..Len(input) :
        input[j].type = "transition" /\ input[j].address = a /\ input[j].does_write}}

InputReaders(a) ==
    {input[k].thread : k \in {j \in 1..Len(input) :
        input[j].type = "transition" /\ input[j].address = a /\ ~input[j].does_write}}

Racy(a) ==
    \/ Cardinality(InputWriters(a)) > 1
    \/ Cardinality(InputWriters(a)) = 1 /\ InputReaders(a) \ InputWriters(a) # {}

Classified == pc \in {"resolve", "drop50", "drop51", "drop52", "drop53", "done", "aborted"}

InOutput(k) == \E j \in 1..Len(data) : data[j].id = k

\* C1: once lines 17-22 have run, every transition's relevant flag is true
\* exactly when its address has more than one writer thread, or exactly one
\* writer thread and a reader thread other than the writer, the sets being
\* taken over all transitions of the imported list on that address.
C1_Relevance ==
    Classified =>
        \A k \in 1..Len(data) :
            data[k].type = "transition" => (data[k].relevant <=> Racy(data[k].address))

\* An address written by thread 1 only and read by threads 1 and 2 is
\* flagged, next to an address written and read by thread 1 only that is not.
C1_Witness ==
    /\ pc = "done"
    /\ \E k \in 1..Len(data) :
        /\ data[k].type = "transition" /\ data[k].relevant
        /\ InputWriters(data[k].address) = {1}
        /\ InputReaders(data[k].address) = {1, 2}

FrameMarkers == {"::atomic", "__atomic_base", "boost::lockfree::CAS",
                 "boost::lockfree::tagged_ptr"}

HasFrameMarker(l) == \E m \in FrameMarkers : Contains(m, l.function)

MatchesEventDenylist(l) ==
    \/ Contains("guards.protect", l.contents)
    \/ Contains("AllocateHPRec", l.function)
    \/ Contains("HPAllocator", l.function)
    \/ Contains("Guard", l.function)

\* The trace of a transition of the imported list after lines 28-48.
RemainingTrace(t) == SanitizeTrace(ResolveUpTo(t.trace, Len(t.trace)))

C4_AnnotationsKept ==
    \A k \in 1..Len(input) : input[k].type = "annotation" => InOutput(k)

\* An annotation whose every frame matches the event-level denylist is in
\* the output.
C4_Witness ==
    /\ pc = "done"
    /\ \E j \in 1..Len(data) :
        /\ data[j].type = "annotation"
        /\ data[j].trace # <<>>
        /\ \A n \in 1..Len(data[j].trace) : MatchesEventDenylist(data[j].trace[n])

\* C5 as stated: applying the substitution to its own result changes nothing.
C5_Original ==
    Len(result) = 2 => result[2] = result[1]

\* C5 amended: applying the substitution to its own result changes nothing
\* exactly when the description holds no "0x"; then the first application
\* returns the description itself.
C5_IdempotentIffNoMatch ==
    Len(result) = 2 =>
        /\ (result[2] = result[1]) <=> ~Contains("0x", text)
        /\ ~Contains("0x", text) => result[1] = text

\* A non-empty description without "0x" went through the substitution twice.
C5_Witness ==
    /\ pc = "annotate"
    /\ Len(result) = 2
    /\ Len(text) > 1
    /\ ~Contains("0x", text)
    /\ result[2] = text

\* C6: the prefix, the token and the remainder concatenate to the line, as
\* does the returned string; the prefix ends at the 0-based column, the
\* token is the longest run of alphabet characters from there, and a column
\* at or past the end of the line returns the line.
C6_HighlightPreserves ==
    (pc = "highlight" /\ result # <<>>) =>
        LET h == result[1]
        IN  /\ h.prefix \o h.token \o h.rest = text
            /\ h.contents = text
            /\ col - 1 < Len(text) => Len(h.prefix) = col - 1
            /\ \A n \in 1..Len(h.token) : SubSeq(h.token, n, n) \in TokenAlphabet
            /\ h.rest # "" /\ col - 1 < Len(text)
                  => SubSeq(h.rest, 1, 1) \notin TokenAlphabet

\* A token in the middle of a line: prefix, token and remainder are all
\* non-empty.
C6_Witness ==
    /\ pc = "highlight"
    /\ result # <<>>
    /\ result[1].prefix # ""
    /\ result[1].token # ""
    /\ result[1].rest # ""

\* C7 as stated: a file that cannot be read does not end the run; the
\* script goes on to line 53 and produces the output list.
C7_NoAbort == pc # "aborted"

\* The lines 28-48 have run for the event with this id.
Sanitized(id) ==
    \/ pc \in {"drop50", "drop51", "drop52", "drop53", "done"}
    \/ pc \in {"resolve", "aborted"} /\ id < i

StripContents(trace) ==
    [n \in 1..Len(trace) |-> [trace[n] EXCEPT !.contents = Unresolved]]

\* C8: the trace of a transition after lines 45-48 is the trace of the
\* imported list without the frames whose function contains a frame-level
\* marker, the other frames all kept and in the same order.
C8_FrameFilterExact ==
    \A j \in 1..Len(data) :
        (data[j].type = "transition" /\ Sanitized(data[j].id)) =>
            StripContents(data[j].trace) =
                SelectSeq(input[data[j].id].trace, LAMBDA l : ~HasFrameMarker(l))

\* A transition whose trace lost a frame and kept another.
C8_Witness ==
    \E j \in 1..Len(data) :
        /\ data[j].type = "transition"
        /\ Sanitized(data[j].id)
        /\ data[j].trace # <<>>
        /\ Len(data[j].trace) < Len(input[data[j].id].trace)

\* C9, state part: a transition of the output carries the flag its address
\* has over the whole imported list, and the address and thread it came with.
C9_FlagsFromFullInput ==
    pc = "done" =>
        \A j \in 1..Len(data) :
            data[j].type = "transition" =>
                /\ data[j].relevant <=> Racy(input[data[j].id].address)
                /\ data[j].address = input[data[j].id].address
                /\ data[j].thread = input[data[j].id].thread

\* C9, step part: a step of lines 26-53 leaves relevant, address, thread
\* and description of every event it keeps as they were.
C9_FilteringKeepsFields ==
    Classified =>
        \A j \in 1..Len(data') : \E k \in 1..Len(data) :
            /\ data[k].id = data'[j].id
            /\ data[k].relevant = data'[j].relevant
            /\ data[k].address = data'[j].address
            /\ data[k].thread = data'[j].thread
            /\ data[k].description = data'[j].description

\* C9: the access sets come from the full imported list, so the flag of a
\* surviving transition counts the dropped transitions too, and filtering
\* changes no flag, address, thread or description.
C9_InsensitiveToFiltering ==
    [](C9_FlagsFromFullInput) /\ [][C9_FilteringKeepsFields]_vars

\* A write by thread 1 is in the output and flagged, nobody reads the
\* address, and every write by thread 2 was dropped.
C9_Witness ==
    /\ pc = "done"
    /\ \E j \in 1..Len(data) :
        /\ data[j].type = "transition" /\ data[j].does_write
        /\ data[j].thread = 1 /\ data[j].relevant
        /\ InputWriters(data[j].address) = {1, 2}
        /\ InputReaders(data[j].address) = {}
        /\ \A k \in 1..Len(data) : data[k].type = "transition" => data[k].thread = 1

\* C10: at every point of the script `data` holds events of the imported
\* list, each at most once and in the order of the imported list.
C10_OrderedSubsequence ==
    /\ \A j \in 1..Len(data) :
        /\ data[j].id \in 1..Len(input)
        /\ data[j].type = input[data[j].id].type
    /\ \A j, k \in 1..Len(data) : j < k => data[j].id < data[k].id

\* Two events survive around one that was dropped.
C10_Witness ==
    /\ pc = "done"
    /\ Len(input) = 3
    /\ Len(data) = 2
    /\ data[1].id = 1
    /\ data[2].id = 3

====
